---- MODULE Spec2Model ----
(***************************************************************************)
(* py-mjpeg: the threaded MJPEGClient (mjpeg/client.py), the asyncio       *)
(* AioMJPEGClient (mjpeg/aioclient.py) and the frame parser                *)
(* (mjpeg/__init__.py) as one state machine.  `kind` selects the client    *)
(* an instance is; both share the buffer pool, the outgoing queue and the  *)
(* statistics, as their code does.  A second part runs the server's        *)
(* mjpeg_generator (mjpeg/server.py) against read_mjpeg_frame.             *)
(***************************************************************************)
EXTENDS Integers, Sequences, FiniteSets, TLC

\* ------------------------------------------------------------------ bounds
NumBufs == 2        \* buffers the application requested
MaxEvents == 3      \* inputs of one run: calls of close() and stop(),
                    \* waits on exc_notify, connection attempts, frames
                    \* sent, ticks of the clock
MaxLimit == 1       \* largest reconnect_limit tried
MaxFrames == 2      \* frames handed to mjpeg_generator
MaxBody == 1        \* bytes of a short frame
MaxBoundary == 1    \* characters of the boundary string
LongLen == 12       \* bytes of the long frame (a two-digit Content-Length)

\* ------------------------------------------------------- program constants
ChunkSize == 8192   \* aread_data: chunk_size = 8192
ByteRange == 256    \* bytearray(range(left)) needs every value < 256
NoBuf == 0          \* Python's None where a Buffer is expected
NoLimit == -1       \* reconnect_limit = None

BufIds == 1..NumBufs

\* request_buffers(2, NumBufs): every buffer is 2 bytes long.
BufLength(b) == 2

\* Content-Length values the stream sends: negative, zero (end of stream),
\* fitting a buffer, too big for it, and too big for a byte to count.
CLens == {-1, 0, 2, 3, 300}

\* Byte k (0-based) of the body of the f-th frame of the run.
BodyByte(f, k) == 10 * f + k + 1

Max(a, b) == IF a >= b THEN a ELSE b
Min(a, b) == IF a <= b THEN a ELSE b

VARIABLES
    kind,           \* "thread" (MJPEGClient) or "aio" (AioMJPEGClient)
    pc,             \* where the worker thread / background task is
    incoming,       \* self._incoming, a deque of buffer ids
    outgoing,       \* self._outgoing, a FIFO of buffer ids and NoBuf (None)
    bufs,           \* the Buffer objects: length, used, seq, sequence, data
    overruns, in_overrun, frames, discarded_frames, reconnects,
    fps, fframe, fcur, fprev,   \* self.fps, self._frame, self._cur, self._prev
    stop,           \* self.stop (once assigned) / self._stop_loops
    stop_is_method, \* MJPEGClient: self.stop is still the method
    is_open, run_task, exc, cancelled, reconnect_limit,
    waiter,         \* a task in exc_notify.wait(): "none", "waiting", "notified"
    buf, length, clen, pos, seq,  \* locals of process_stream / read_data
    app,            \* where the application is in open()/close()/stop()
    appBufs,        \* buffers the application owns
    sent,           \* the Content-Length of each frame whose headers were read
    iters,          \* per loop iteration: was the pool empty, did a frame come
    accepted,       \* frames that found a free buffer long enough
    ndeq, lastDeq, nsentinels, gotNone,
    attempts, streamed, ncloses, stopRaised, openRaised, limitBreak,
    ended,          \* how the latest connection ended ("none": it has not)
    stalled,        \* the server has stopped sending on this connection
    rtPc,           \* round trip: "idle", "input", "stream"
    rtB, rtFrames,  \* round trip: the boundary string and the frames served
    rtStream,       \* round trip: the bytes mjpeg_generator produced
    rtPos,          \* round trip: bytes of rtStream consumed so far
    rtBuf,          \* round trip: the bytearray read_mjpeg_frame fills
    rtOut,          \* round trip: what each read_mjpeg_frame call returned
    events          \* inputs consumed so far

vars == <<kind, pc, incoming, outgoing, bufs, overruns, in_overrun, frames,
          discarded_frames, reconnects, fps, fframe, fcur, fprev, stop,
          stop_is_method, is_open, run_task, exc, waiter, cancelled,
          reconnect_limit,
          buf, length, clen, pos, seq, app, appBufs, sent, iters, accepted,
          ndeq, lastDeq, nsentinels, gotNone, attempts, streamed, ncloses,
          stopRaised, openRaised, limitBreak, ended, stalled, events,
          rtPc, rtB, rtFrames, rtStream, rtPos, rtBuf, rtOut>>

statVars == <<overruns, in_overrun, frames, discarded_frames>>
fpsVars == <<fps, fframe, fcur, fprev>>
localVars == <<buf, length, clen, pos, seq>>
poolVars == <<incoming, outgoing, bufs>>
taskVars == <<is_open, run_task, exc, waiter, cancelled>>
stopVars == <<stop, stop_is_method>>
appVars == <<app, appBufs, ndeq, lastDeq, gotNone, ncloses, stopRaised,
            openRaised>>
const == <<kind, reconnect_limit>>
ghostVars == <<sent, iters, accepted, attempts, streamed, limitBreak,
               nsentinels, ended>>
rtVars == <<rtPc, rtB, rtFrames, rtStream, rtPos, rtBuf, rtOut>>

\* Buffer.__init__: used = 0, sequence = 0, data = bytearray(length); the
\* attribute seq does not exist until process_stream assigns it (-1 here).
\* fid is the frame the buffer was last published for (0: none), which the
\* code does not store.
NewBuffer(len) ==
    [used |-> 0, seq |-> -1, sequence |-> 0, data |-> [i \in 1..len |-> 0],
     fid |-> 0]

log_interval == 1

\* No server and parser are run side by side with the clients.
RtIdle ==
    /\ rtPc = "idle" /\ rtB = <<>> /\ rtFrames = <<>> /\ rtStream = <<>>
    /\ rtPos = 0 /\ rtBuf = <<>> /\ rtOut = <<>>

Init ==
    /\ RtIdle
    /\ kind \in {"thread", "aio"}
    /\ pc = IF kind = "thread" THEN "t_idle" ELSE "a_none"
    /\ incoming = <<>>
    /\ outgoing = <<>>
    /\ bufs = [b \in BufIds |-> NewBuffer(BufLength(b))]
    /\ overruns = 0 /\ in_overrun = FALSE
    /\ frames = 0 /\ discarded_frames = 0 /\ reconnects = 0
    /\ fps = 0 /\ fframe = 0 /\ fcur = 0 /\ fprev = 0
    /\ stop = FALSE
    /\ stop_is_method = (kind = "thread")
    /\ is_open = FALSE /\ run_task = FALSE /\ exc = FALSE /\ cancelled = FALSE
    /\ waiter = "none"
    /\ reconnect_limit \in IF kind = "aio" THEN {NoLimit} \cup (0..MaxLimit)
                                            ELSE {NoLimit}
    /\ buf = NoBuf /\ length = 0 /\ clen = 0 /\ pos = 0 /\ seq = 0
    /\ app = "idle"
    /\ appBufs = BufIds
    /\ sent = <<>> /\ iters = <<>> /\ accepted = {}
    /\ ndeq = 0 /\ lastDeq = 0 /\ nsentinels = 0 /\ gotNone = 0
    /\ attempts = 0 /\ streamed = FALSE /\ ncloses = 0
    /\ stopRaised = "no" /\ openRaised = FALSE /\ limitBreak = FALSE
    /\ ended = "none"
    /\ stalled = FALSE
    /\ events = 0

\* ------------------------------------------------------------ pure helpers

\* Python's  b[i:n] = data  on a bytearray (0-based i, n): the slice
\* b[i:max(i, n)] is replaced by data, whatever its length.
SliceAssign(b, i, n, data) ==
    SubSeq(b, 1, i) \o data \o SubSeq(b, Max(i, n) + 1, Len(b))

\* A read loop that never advances its view: every chunk lands at offset 0.
WriteAtStart(b, p, data) ==
    [k \in 1..Len(b) |-> IF k <= Len(data) THEN data[k] ELSE b[k]]

\* memoryview(buf)[:length] followed by readinto at offset p: n bytes
\* overwrite b[p : p + n] in place.
WriteAt(b, p, data) ==
    [k \in 1..Len(b) |->
        IF k > p /\ k <= p + Len(data) THEN data[k - p] ELSE b[k]]

\* len(memoryview(buf)[:n]) for a buffer of len bytes (n may be negative).
ViewLen(len, n) == IF n >= 0 THEN Min(n, len) ELSE Max(0, len + n)

\* The next n bytes the stream holds for the frame being read, from offset p;
\* after a negative Content-Length they are whatever follows (99 here).
StreamBytes(f, c, p, n) ==
    [k \in 1..n |-> IF c > 0 THEN BodyByte(f, p + k - 1) ELSE 99]

\* What one read of up to req bytes may return: all of it or a part.
ReadSizes(req) == {req, (req + 1) \div 2}

\* aread_data: the chunk size the first read_chunk is asked for.
RECURSIVE Halve(_, _)
Halve(chunk, len) ==
    IF chunk <= len /\ chunk # 1 THEN Halve(chunk \div 2, len) ELSE chunk
FirstChunk(len) == IF ChunkSize <= len THEN Halve(ChunkSize, len) ELSE ChunkSize

\* An input is left to consume.
More == events < MaxEvents

\* A reading of the clock after the reading t: time never runs backwards,
\* a tick of the clock is an input, and between two readings the clock may
\* advance by more than log_interval.
Clock(t) == IF More THEN t..(t + log_interval + 1) ELSE {t}

\* --------------------------------------------- steps both read loops share

\* A loop that counts an overrun on every empty pop instead of on the
\* transition into overrun.
PopBufferEvery(h) ==
    /\ iters' = Append(h, [nobuf |-> incoming = <<>>, framed |-> FALSE])
    /\ IF incoming # <<>>
       THEN /\ buf' = incoming[Len(incoming)]
            /\ length' = BufLength(incoming[Len(incoming)])
            /\ incoming' = SubSeq(incoming, 1, Len(incoming) - 1)
            /\ in_overrun' = FALSE
            /\ overruns' = overruns
       ELSE /\ buf' = NoBuf
            /\ length' = 0
            /\ incoming' = incoming
            /\ in_overrun' = TRUE
            /\ overruns' = overruns + 1

\* A loop that takes the last buffer of the pool without removing it.
PopBufferPeek(h) ==
    /\ iters' = Append(h, [nobuf |-> incoming = <<>>, framed |-> FALSE])
    /\ IF incoming # <<>>
       THEN /\ buf' = incoming[Len(incoming)]
            /\ length' = BufLength(incoming[Len(incoming)])
            /\ incoming' = incoming
            /\ in_overrun' = FALSE
            /\ overruns' = overruns
       ELSE /\ buf' = NoBuf
            /\ length' = 0
            /\ incoming' = incoming
            /\ in_overrun' = TRUE
            /\ overruns' = IF in_overrun THEN overruns ELSE overruns + 1

\* try: buf = self._incoming.pop() ... except IndexError: ...
\* (client.py 107-118, aioclient.py 255-266)
PopBuffer(h) ==
    /\ iters' = Append(h, [nobuf |-> incoming = <<>>, framed |-> FALSE])
    /\ IF incoming # <<>>
       THEN /\ buf' = incoming[Len(incoming)]
            /\ length' = BufLength(incoming[Len(incoming)])
            /\ incoming' = SubSeq(incoming, 1, Len(incoming) - 1)
            /\ in_overrun' = FALSE
            /\ overruns' = overruns
       ELSE /\ buf' = NoBuf
            /\ length' = 0
            /\ incoming' = incoming
            /\ in_overrun' = TRUE
            /\ overruns' = IF in_overrun THEN overruns ELSE overruns + 1

\* The frame of the current iteration was read completely.
Framed(h) == [h EXCEPT ![Len(h)].framed = TRUE]

\* _init_fps.  The estimator uses only differences between readings of the
\* clock, so the reading taken here is the origin of those that follow.
InitFps ==
    /\ fps' = 0
    /\ fframe' = 0
    /\ fcur' = fcur
    /\ fprev' = fcur

\* An estimator whose window slides by log_interval instead of restarting
\* at the current reading of the clock.
UpdateFpsSlide ==
    \E t \in Clock(fcur) :
        /\ fcur' = t
        /\ IF t >= fprev + log_interval
           THEN /\ fps' = (fframe + 1) \div log_interval
                /\ fprev' = fprev + log_interval
                /\ fframe' = 0
           ELSE /\ fps' = fps
                /\ fprev' = fprev
                /\ fframe' = fframe + 1

\* _update_fps; int(self._frame / self.log_interval) truncates.
UpdateFps ==
    \E t \in Clock(fcur) :
        /\ fcur' = t
        /\ IF t >= fprev + log_interval
           THEN /\ fps' = (fframe + 1) \div log_interval
                /\ fprev' = t
                /\ fframe' = 0
           ELSE /\ fps' = fps
                /\ fprev' = fprev
                /\ fframe' = fframe + 1

\* The frame f of Content-Length c was read: self._update_fps();
\* self.frames += 1.  The frame is entered in `accepted` when a buffer was
\* popped for it and is long enough.
CountFrame(f, c) ==
    /\ UpdateFps
    /\ frames' = frames + 1
    /\ accepted' = IF buf # NoBuf /\ BufLength(buf) >= c
                   THEN accepted \cup {f} ELSE accepted

\* A loop that puts the filled buffer at the head of the outgoing queue.
PublishFront(f, bs) ==
    /\ IF buf # NoBuf /\ length >= clen
       THEN /\ bufs' = [bs EXCEPT ![buf].used = clen, ![buf].seq = seq,
                                  ![buf].fid = f]
            /\ outgoing' = <<buf>> \o outgoing
            /\ discarded_frames' = discarded_frames
       ELSE /\ bufs' = bs
            /\ outgoing' = outgoing
            /\ discarded_frames' = discarded_frames + 1
    /\ seq' = seq + 1

\* A loop that counts a discarded frame only when it had no buffer at all.
PublishUncounted(f, bs) ==
    /\ IF buf # NoBuf /\ length >= clen
       THEN /\ bufs' = [bs EXCEPT ![buf].used = clen, ![buf].seq = seq,
                                  ![buf].fid = f]
            /\ outgoing' = Append(outgoing, buf)
            /\ discarded_frames' = discarded_frames
       ELSE /\ bufs' = bs
            /\ outgoing' = outgoing
            /\ discarded_frames' = IF buf = NoBuf THEN discarded_frames + 1
                                   ELSE discarded_frames
    /\ seq' = seq + 1

\* if buf is not None and length >= clen: ... put(buf)  else: discarded += 1
\* then seq += 1  (client.py 124-132, aioclient.py 282-290).  Both clients
\* assign buf.seq; Buffer.sequence is never assigned.
Publish(f, bs) ==
    /\ IF buf # NoBuf /\ length >= clen
       THEN /\ bufs' = [bs EXCEPT ![buf].used = clen, ![buf].seq = seq,
                                  ![buf].fid = f]
            /\ outgoing' = Append(outgoing, buf)
            /\ discarded_frames' = discarded_frames
       ELSE /\ bufs' = bs
            /\ outgoing' = outgoing
            /\ discarded_frames' = discarded_frames + 1
    /\ seq' = seq + 1

\* The locals of process_stream go out of scope when it is left.
DropLocals == buf' = NoBuf /\ length' = 0 /\ clen' = 0 /\ pos' = 0 /\ seq' = 0

\* ------------------------------------------------ MJPEGClient (client.py)

IsThread == kind = "thread"

\* Thread.start(), called by the application.
TStart ==
    /\ IsThread /\ pc = "t_idle"
    /\ pc' = "t_start"
    /\ UNCHANGED <<const, rtVars, stalled, poolVars, statVars, reconnects, fpsVars, stopVars,
                   taskVars, localVars, appVars, ghostVars, events>>

\* run(): self.stop = False; self._init_fps()
TRunBegin ==
    /\ IsThread /\ pc = "t_start"
    /\ stop' = FALSE /\ stop_is_method' = FALSE
    /\ InitFps
    /\ events' = events + (fcur' - fcur)
    /\ pc' = "t_while"
    /\ UNCHANGED <<const, rtVars, stalled, poolVars, statVars, reconnects, taskVars, localVars,
                   appVars, ghostVars>>

\* while not self.stop: ... urllib.request.urlopen(self.url)
TWhile ==
    /\ IsThread /\ pc = "t_while"
    /\ IF stop
       THEN pc' = "t_done" /\ UNCHANGED <<attempts, ended, events>>
       ELSE /\ More
            /\ pc' = "t_urlopen"
            /\ attempts' = attempts + 1
            /\ ended' = "none"
            /\ events' = events + 1
    /\ UNCHANGED <<const, rtVars, stalled, poolVars, statVars, reconnects, fpsVars, stopVars,
                   taskVars, localVars, appVars, sent, iters, accepted, streamed,
                   limitBreak, nsentinels>>

\* urlopen returns or raises; open_mjpeg_stream accepts the response or
\* raises ProtoError (status, boundary).  On success seq = 0.
TConnect ==
    /\ IsThread /\ pc = "t_urlopen"
    /\ \E ok \in BOOLEAN :
        IF ok THEN pc' = "t_pop" /\ streamed' = TRUE /\ ended' = ended
              ELSE pc' = "t_sleep" /\ streamed' = streamed /\ ended' = "error"
    /\ seq' = 0
    /\ UNCHANGED <<const, rtVars, stalled, poolVars, statVars, reconnects, fpsVars, stopVars,
                   taskVars, buf, length, clen, pos, appVars, sent, iters,
                   accepted, attempts, limitBreak, nsentinels, events>>

\* while True: the pop at the top of an iteration.
TPop ==
    /\ IsThread /\ pc = "t_pop"
    /\ PopBuffer(iters)
    /\ pc' = "t_headers"
    /\ UNCHANGED <<const, rtVars, stalled, outgoing, bufs, frames, discarded_frames, reconnects,
                   fpsVars, stopVars, taskVars, clen, pos, seq, appVars, sent,
                   accepted, attempts, streamed, limitBreak, nsentinels,
                   ended, events>>

\* read_mjpeg_frame up to the body: read_headers, parse_content_length,
\* check_content_type.  Any failure leaves process_stream with the exception.
\* urlopen is called without a timeout, so the reads of the stream block for
\* as long as the server sends nothing.
THeadersFail ==
    /\ IsThread /\ pc = "t_headers" /\ ~stalled
    /\ pc' = "t_sleep"
    /\ DropLocals
    /\ ended' = "error"
    /\ UNCHANGED <<const, rtVars, stalled, poolVars, statVars, reconnects, fpsVars, stopVars,
                   taskVars, appVars, sent, iters, accepted, attempts, streamed,
                   limitBreak, nsentinels, events>>

\* The headers are well-formed and carry Content-Length c.
THeaders ==
    /\ IsThread /\ pc = "t_headers" /\ ~stalled
    /\ \E c \in CLens :
        IF c = 0
        THEN \* raise EOFError
             /\ pc' = "t_sleep" /\ DropLocals
             /\ ended' = "eof"
             /\ UNCHANGED <<sent, iters, accepted, frames, fpsVars, events>>
        ELSE /\ More
             /\ sent' = Append(sent, c)
             /\ IF length >= c /\ buf = NoBuf
                THEN \* read_data: memoryview(None) raises TypeError
                     /\ pc' = "t_sleep" /\ DropLocals
                     /\ ended' = "error"
                     /\ events' = events + 1
                     /\ UNCHANGED <<iters, accepted, frames, fpsVars>>
                ELSE /\ clen' = c /\ pos' = 0
                     /\ UNCHANGED <<buf, length, seq, ended>>
                     /\ IF length >= c /\ ViewLen(length, c) = 0
                        THEN \* while len(v): is false at once
                             /\ pc' = "t_publish"
                             /\ CountFrame(Len(sent) + 1, c)
                             /\ iters' = Framed(iters)
                             /\ events' = events + 1 + (fcur' - fcur)
                        ELSE /\ pc' = "t_body"
                             /\ events' = events + 1
                             /\ UNCHANGED <<iters, accepted, frames, fpsVars>>
    /\ UNCHANGED <<const, rtVars, stalled, poolVars, overruns, in_overrun, discarded_frames,
                   reconnects, stopVars, taskVars, appVars, attempts, streamed,
                   limitBreak, nsentinels>>

\* read_data / skip_data: one stream.readinto(v) / stream.read(left).
\* A read of 0 bytes before the end raises ProtoError; the last read is
\* followed by self._update_fps() and self.frames += 1.
TBody ==
    /\ IsThread /\ pc = "t_body" /\ ~stalled
    /\ LET store == length >= clen
           total == IF store THEN ViewLen(length, clen) ELSE clen
       IN \E n \in ReadSizes(total - pos) \cup {0} :
            IF n = 0
            THEN /\ pc' = "t_sleep" /\ DropLocals
                 /\ ended' = "error"
                 /\ UNCHANGED <<bufs, iters, accepted, frames, fpsVars, events>>
            ELSE /\ bufs' = IF store
                            THEN [bufs EXCEPT ![buf].data =
                                    WriteAt(@, pos, StreamBytes(Len(sent), clen, pos, n))]
                            ELSE bufs
                 /\ pos' = pos + n
                 /\ UNCHANGED <<buf, length, clen, seq, ended>>
                 /\ IF pos + n = total
                    THEN /\ pc' = "t_publish"
                         /\ CountFrame(Len(sent), clen)
                         /\ iters' = Framed(iters)
                         /\ events' = events + (fcur' - fcur)
                    ELSE /\ pc' = pc
                         /\ UNCHANGED <<iters, accepted, frames, fpsVars, events>>
    /\ UNCHANGED <<const, rtVars, stalled, incoming, outgoing, overruns, in_overrun,
                   discarded_frames, reconnects, stopVars, taskVars, appVars,
                   sent, attempts, streamed, limitBreak, nsentinels>>

\* The rest of the iteration: publish or discard, seq += 1.
TPublish ==
    /\ IsThread /\ pc = "t_publish"
    /\ Publish(Len(sent), bufs)
    /\ pc' = "t_pop"
    /\ buf' = NoBuf /\ length' = 0 /\ clen' = 0 /\ pos' = 0
    /\ UNCHANGED <<const, rtVars, stalled, incoming, overruns, in_overrun, frames, reconnects,
                   fpsVars, stopVars, taskVars, appVars, ghostVars, events>>

\* except ...: sleep(self.reconnect_interval); self.reconnects += 1
TSleep ==
    /\ IsThread /\ pc = "t_sleep"
    /\ reconnects' = reconnects + 1
    /\ pc' = "t_while"
    /\ UNCHANGED <<const, rtVars, stalled, poolVars, statVars, fpsVars, stopVars, taskVars,
                   localVars, appVars, ghostVars, events>>

\* client.stop(): the attribute lookup.  Once self.stop holds a bool (run()
\* assigns False, stop() assigns True) the call raises TypeError; stopRaised
\* records where the worker was then: not yet in run(), in it, or past it.
TStopLookup ==
    /\ IsThread /\ app = "idle" /\ More
    /\ events' = events + 1
    /\ IF stop_is_method
       THEN app' = "stop_bound" /\ stopRaised' = stopRaised
       ELSE /\ app' = "idle"
            /\ stopRaised' = IF pc \in {"t_idle", "t_start"} THEN "idle"
                              ELSE IF pc = "t_done" THEN "done" ELSE "running"
    /\ UNCHANGED <<const, rtVars, stalled, pc, poolVars, statVars, reconnects, fpsVars, stopVars,
                   taskVars, localVars, appBufs, ndeq, lastDeq, gotNone,
                   ncloses, openRaised, ghostVars>>

\* The body of stop(): self.stop = True.
TStopBody ==
    /\ IsThread /\ app = "stop_bound"
    /\ stop' = TRUE /\ stop_is_method' = FALSE
    /\ app' = "idle"
    /\ UNCHANGED <<const, rtVars, stalled, pc, poolVars, statVars, reconnects, fpsVars, taskVars,
                   localVars, appBufs, ndeq, lastDeq, gotNone, ncloses,
                   stopRaised, openRaised, ghostVars, events>>

\* ------------------------------------------ AioMJPEGClient (aioclient.py)
\* The background task runs from one await to the next without interruption;
\* pc names the await it is suspended at.

IsAio == kind = "aio"

\* The task is suspended and no cancellation is pending.
Resumes(at) == IsAio /\ pc = at /\ ~cancelled

\* set_exc(v): self.exc = v and exc_notify.notify_all().
SetExc(v) ==
    /\ exc' = v
    /\ waiter' = IF waiter = "waiting" THEN "notified" ELSE waiter

\* A run() that starts an attempt without clearing the recorded error.
ClearExcNever == UNCHANGED <<exc, waiter>>

\* if self.exc is not None: await set_exc(None)
ClearExc == IF exc THEN SetExc(FALSE) ELSE UNCHANGED <<exc, waiter>>

\* run(), the top of  while not self._stop_loops:  with the flag clear:
\* clear a recorded error (set_exc(None)) and issue session.get(self.url).
LoopTop ==
    /\ More
    /\ ClearExc
    /\ attempts' = attempts + 1
    /\ ended' = "none"
    /\ events' = events + 1
    /\ pc' = "a_get"

\* A run() that gives up only when reconnects has passed the limit.
AfterAttemptLate ==
    IF ~stop /\ reconnect_limit # NoLimit /\ reconnects > reconnect_limit
    THEN /\ pc' = "a_final"
         /\ is_open' = FALSE
         /\ limitBreak' = TRUE
    ELSE /\ pc' = IF stop THEN "a_final" ELSE "a_sleep"
         /\ is_open' = IF stop THEN FALSE ELSE is_open
         /\ limitBreak' = limitBreak

\* run() after the try block of one connection (332-337), and the finally
\* clause up to its first await when the loop is left.
AfterAttempt ==
    IF ~stop /\ reconnect_limit # NoLimit /\ reconnects >= reconnect_limit
    THEN /\ pc' = "a_final"
         /\ is_open' = FALSE
         /\ limitBreak' = TRUE
    ELSE /\ pc' = IF stop THEN "a_final" ELSE "a_sleep"
         /\ is_open' = IF stop THEN FALSE ELSE is_open
         /\ limitBreak' = limitBreak

\* process_stream, the top of  while not self._stop_loops:  pop a buffer and
\* await reader.next().
IterTop(h) ==
    /\ PopBuffer(h)
    /\ pc' = "a_next"

\* An open() without the already-open test: it always creates a task.
AOpenAgain ==
    /\ IsAio /\ app = "idle"
    /\ openRaised' = FALSE
    /\ run_task' = TRUE
    /\ cancelled' = FALSE
    /\ pc' = "a_created"
    /\ UNCHANGED <<const, rtVars, stalled, poolVars, statVars, reconnects, fpsVars, stopVars,
                   is_open, exc, waiter, localVars, app, appBufs, ndeq, lastDeq,
                   gotNone, ncloses, stopRaised, ghostVars, events>>

\* open(): raises RuntimeError when already open, else creates the task.
AOpen ==
    /\ IsAio /\ app = "idle"
    /\ IF is_open \/ run_task
       THEN /\ openRaised' = TRUE
            /\ UNCHANGED <<pc, run_task, cancelled>>
       ELSE /\ openRaised' = FALSE
            /\ run_task' = TRUE
            /\ cancelled' = FALSE
            /\ pc' = "a_created"
    /\ UNCHANGED <<const, rtVars, stalled, poolVars, statVars, reconnects, fpsVars, stopVars,
                   is_open, exc, waiter, localVars, app, appBufs, ndeq, lastDeq,
                   gotNone, ncloses, stopRaised, ghostVars, events>>

\* The task starts: run() up to the first session.get.
ARunStart ==
    /\ Resumes("a_created")
    /\ is_open' = TRUE
    /\ stop' = FALSE
    /\ InitFps
    /\ More
    /\ ClearExc
    /\ attempts' = 1
    /\ streamed' = FALSE
    /\ limitBreak' = FALSE
    /\ ended' = "none"
    /\ events' = events + 1 + (fcur' - fcur)
    /\ pc' = "a_get"
    /\ UNCHANGED <<const, rtVars, stalled, poolVars, statVars, reconnects, stop_is_method,
                   run_task, cancelled, localVars, appVars, sent, iters, accepted,
                   nsentinels>>

\* A run() that lets a failed connection pass without recording it.
AConnectFailSilent ==
    /\ Resumes("a_get")
    /\ UNCHANGED <<exc, waiter>>
    /\ ended' = "error"
    /\ AfterAttempt
    /\ UNCHANGED <<const, rtVars, stalled, poolVars, statVars, reconnects, fpsVars, stopVars,
                   run_task, cancelled, localVars, appVars, sent, iters, accepted,
                   attempts, streamed, nsentinels, events>>

\* session.get / raise_for_status / MultipartReader.from_response fail: the
\* exception is recorded by set_exc and the attempt is over.
AConnectFail ==
    /\ Resumes("a_get")
    /\ SetExc(TRUE)
    /\ ended' = "error"
    /\ AfterAttempt
    /\ UNCHANGED <<const, rtVars, stalled, poolVars, statVars, reconnects, fpsVars, stopVars,
                   run_task, cancelled, localVars, appVars, sent, iters, accepted,
                   attempts, streamed, nsentinels, events>>

\* The response arrives: process_stream starts with seq = 0.
AConnect ==
    /\ Resumes("a_get")
    /\ streamed' = TRUE
    /\ seq' = 0
    /\ IF stop
       THEN /\ AfterAttempt
            /\ ended' = "stopped"
            /\ UNCHANGED <<buf, length, incoming, in_overrun, overruns, iters>>
       ELSE /\ IterTop(iters)
            /\ UNCHANGED <<is_open, limitBreak, ended>>
    /\ UNCHANGED <<const, rtVars, stalled, outgoing, bufs, frames, discarded_frames, reconnects,
                   fpsVars, stopVars, run_task, exc, waiter, cancelled, clen, pos,
                   appVars, sent, accepted, attempts, nsentinels, events>>

\* reader.next() times out or raises, or the part is unusable (no
\* Content-Length: the assert fails; wrong Content-type: ProtoError).
ANextFail ==
    /\ Resumes("a_next")
    /\ SetExc(TRUE)
    /\ ended' = "error"
    /\ stalled' = FALSE
    /\ DropLocals
    /\ AfterAttempt
    /\ UNCHANGED <<const, rtVars, poolVars, statVars, reconnects, fpsVars, stopVars,
                   run_task, cancelled, appVars, sent, iters, accepted, attempts,
                   streamed, nsentinels, events>>

\* A run() that records the end of the stream as an error.
ANextEofRecorded ==
    /\ Resumes("a_next") /\ ~stalled
    /\ ended' = "eof"
    /\ SetExc(TRUE)
    /\ DropLocals
    /\ AfterAttempt
    /\ UNCHANGED <<const, rtVars, stalled, poolVars, statVars, reconnects, fpsVars, stopVars,
                   run_task, cancelled, appVars, sent, iters, accepted,
                   attempts, streamed, nsentinels, events>>

\* reader.next() returns None, or a part of Content-Length 0: EOFError,
\* which run() passes over without recording it.
ANextEof ==
    /\ Resumes("a_next") /\ ~stalled
    /\ ended' = "eof"
    /\ DropLocals
    /\ AfterAttempt
    /\ UNCHANGED <<const, rtVars, stalled, poolVars, statVars, reconnects, fpsVars, stopVars,
                   run_task, exc, waiter, cancelled, appVars, sent, iters, accepted,
                   attempts, streamed, nsentinels, events>>

\* The frame f of Content-Length c is complete with the buffers bs: count
\* it, publish or discard it, and start the next iteration.
FinishFrame(f, c, bs) ==
    /\ CountFrame(f, c)
    /\ Publish(f, bs)
    /\ IF stop
       THEN /\ AfterAttempt
            /\ buf' = NoBuf /\ length' = 0
            /\ iters' = Framed(iters)
            /\ ended' = "stopped"
            /\ UNCHANGED <<incoming, in_overrun, overruns>>
       ELSE /\ IterTop(Framed(iters))
            /\ UNCHANGED <<is_open, limitBreak, ended>>

\* reader.next() returns a part of Content-Length c # 0 and
\* aread_mjpeg_frame starts on it.
ANext ==
    /\ Resumes("a_next") /\ ~stalled /\ More
    /\ \E c \in CLens \ {0} :
        /\ sent' = Append(sent, c)
        /\ IF length >= c
           THEN IF c < 0
                THEN \* aread_data: while remaining > 0 is false at once
                     /\ clen' = c /\ pos' = 0
                     /\ FinishFrame(Len(sent) + 1, c, bufs)
                     /\ events' = events + 1 + (fcur' - fcur)
                     /\ UNCHANGED <<exc, waiter>>
                ELSE /\ pc' = "a_chunk"
                     /\ clen' = c /\ pos' = 0
                     /\ events' = events + 1
                     /\ UNCHANGED <<buf, length, seq, incoming, outgoing, bufs,
                                    statVars, fpsVars, iters, accepted, is_open,
                                    exc, waiter, limitBreak, ended>>
           ELSE IF c > ByteRange
                THEN \* askip_data: bytearray(range(left)) raises ValueError
                     /\ SetExc(TRUE)
                     /\ ended' = "error"
                     /\ DropLocals
                     /\ AfterAttempt
                     /\ events' = events + 1
                     /\ UNCHANGED <<poolVars, statVars, fpsVars, iters, accepted>>
                ELSE /\ pc' = "a_chunk"
                     /\ clen' = c /\ pos' = 0
                     /\ events' = events + 1
                     /\ UNCHANGED <<buf, length, seq, incoming, outgoing, bufs,
                                    statVars, fpsVars, iters, accepted, is_open,
                                    exc, waiter, limitBreak, ended>>
    /\ UNCHANGED <<const, rtVars, stalled, reconnects, stopVars, run_task, cancelled, appVars,
                   attempts, streamed, nsentinels>>

\* aread_data: one  data = await stream.read_chunk(chunk_size)  and the rest
\* of that iteration:  buf[i:n] = data.
AChunk ==
    /\ Resumes("a_chunk") /\ ~stalled
    /\ LET store == length >= clen
           req == Min(FirstChunk(clen), clen - pos)
       IN \E n \in ReadSizes(req) \cup {0} :
            IF n = 0
            THEN \* raise ProtoError('Not enough data in chunk')
                 /\ SetExc(TRUE)
                 /\ ended' = "error"
                 /\ DropLocals
                 /\ AfterAttempt
                 /\ UNCHANGED <<poolVars, statVars, fpsVars, iters, accepted,
                                events>>
            ELSE LET bs == IF store
                           THEN [bufs EXCEPT ![buf].data =
                                   SliceAssign(@, pos, n,
                                       StreamBytes(Len(sent), clen, pos, n))]
                           ELSE bufs
                 IN IF pos + n = clen
                    THEN /\ FinishFrame(Len(sent), clen, bs)
                         /\ clen' = 0 /\ pos' = 0
                         /\ events' = events + (fcur' - fcur)
                         /\ UNCHANGED <<exc, waiter>>
                    ELSE /\ bufs' = bs
                         /\ pos' = pos + n
                         /\ UNCHANGED <<pc, buf, length, clen, seq, incoming,
                                        outgoing, statVars, fpsVars, iters,
                                        accepted, is_open, exc, waiter, limitBreak,
                                        ended, events>>
    /\ UNCHANGED <<const, rtVars, stalled, reconnects, stopVars, run_task, cancelled, appVars,
                   sent, attempts, streamed, nsentinels>>

\* asyncio.sleep(self.reconnect_interval) returns: self.reconnects += 1 and
\* the next turn of the while loop of run().
ASleepDone ==
    /\ Resumes("a_sleep")
    /\ reconnects' = reconnects + 1
    /\ IF stop
       THEN /\ pc' = "a_final" /\ is_open' = FALSE
            /\ UNCHANGED <<exc, waiter, attempts, ended, events>>
       ELSE LoopTop /\ is_open' = is_open
    /\ UNCHANGED <<const, rtVars, stalled, poolVars, statVars, fpsVars, stopVars, run_task,
                   cancelled, localVars, appVars, sent, iters, accepted, streamed,
                   limitBreak, nsentinels>>

\* The finally clause of run() after is_open = False: session.close() and
\* set_exc(None).
AFinal ==
    /\ Resumes("a_final")
    /\ SetExc(FALSE)
    /\ pc' = "a_done"
    /\ UNCHANGED <<const, rtVars, stalled, poolVars, statVars, reconnects, fpsVars, stopVars,
                   is_open, run_task, cancelled, localVars, appVars, ghostVars,
                   events>>

\* t.cancel() reaches the task at its await: CancelledError runs the finally
\* clause of run().  A task cancelled before its first step never runs, and
\* one cancelled inside the finally clause skips the rest of it.
ACancelled ==
    /\ IsAio /\ cancelled
    /\ pc \in {"a_created", "a_get", "a_next", "a_chunk", "a_sleep", "a_final"}
    /\ cancelled' = FALSE
    /\ pc' = "a_done"
    /\ IF pc \in {"a_created", "a_final"}
       THEN UNCHANGED <<is_open, exc, waiter>>
       ELSE is_open' = FALSE /\ SetExc(FALSE)
    /\ stalled' = FALSE
    /\ DropLocals
    /\ UNCHANGED <<const, rtVars, poolVars, statVars, reconnects, fpsVars, stopVars,
                   run_task, appVars, ghostVars, events>>

\* A close() that cancels the task and puts the sentinel without awaiting it.
ACloseBeginNoWait ==
    /\ IsAio /\ app = "idle" /\ More
    /\ events' = events + 1
    /\ ncloses' = ncloses + 1
    /\ stop' = TRUE
    /\ run_task' = FALSE
    /\ cancelled' = IF run_task THEN pc # "a_done" ELSE cancelled
    /\ outgoing' = Append(outgoing, NoBuf)
    /\ nsentinels' = nsentinels + 1
    /\ UNCHANGED <<const, rtVars, stalled, pc, incoming, bufs, statVars, reconnects, fpsVars,
                   stop_is_method, is_open, exc, waiter, localVars, app, appBufs, ndeq,
                   lastDeq, gotNone, stopRaised, openRaised, sent, iters, accepted,
                   attempts, streamed, limitBreak, ended>>

\* close() up to  await t : set the stop flag, forget the task and cancel it.
\* With no task the finally clause puts the sentinel at once.
ACloseBegin ==
    /\ IsAio /\ app = "idle" /\ More
    /\ events' = events + 1
    /\ ncloses' = ncloses + 1
    /\ stop' = TRUE
    /\ IF run_task
       THEN /\ run_task' = FALSE
            /\ cancelled' = (pc # "a_done")
            /\ app' = "close_wait"
            /\ UNCHANGED <<outgoing, nsentinels>>
       ELSE /\ outgoing' = Append(outgoing, NoBuf)
            /\ nsentinels' = nsentinels + 1
            /\ UNCHANGED <<run_task, cancelled, app>>
    /\ UNCHANGED <<const, rtVars, stalled, pc, incoming, bufs, statVars, reconnects, fpsVars,
                   stop_is_method, is_open, exc, waiter, localVars, appBufs, ndeq,
                   lastDeq, gotNone, stopRaised, openRaised, sent, iters, accepted,
                   attempts, streamed, limitBreak, ended>>

\* close() after  await t : assert not self.is_open, and in the finally
\* clause  await self._outgoing.put(None).
ACloseEnd ==
    /\ IsAio /\ app = "close_wait" /\ pc = "a_done"
    /\ outgoing' = Append(outgoing, NoBuf)
    /\ nsentinels' = nsentinels + 1
    /\ app' = "idle"
    /\ UNCHANGED <<const, rtVars, stalled, pc, incoming, bufs, statVars, reconnects, fpsVars,
                   stopVars, taskVars, localVars, appBufs, ndeq, lastDeq,
                   gotNone, ncloses, stopRaised, openRaised, sent, iters, accepted,
                   attempts, streamed, limitBreak, ended, events>>

\* A task of the application enters  async with client.exc_notify:
\* await client.exc_notify.wait().
AWait ==
    /\ IsAio /\ waiter = "none" /\ More
    /\ waiter' = "waiting"
    /\ events' = events + 1
    /\ UNCHANGED <<const, rtVars, stalled, pc, poolVars, statVars, reconnects, fpsVars, stopVars,
                   is_open, run_task, exc, cancelled, localVars, appVars,
                   ghostVars>>

\* The notified task resumes and leaves the condition.
AWake ==
    /\ IsAio /\ waiter = "notified"
    /\ waiter' = "none"
    /\ UNCHANGED <<const, rtVars, stalled, pc, poolVars, statVars, reconnects, fpsVars, stopVars,
                   is_open, run_task, exc, cancelled, localVars, appVars,
                   ghostVars, events>>

NextAio ==
    \/ AOpen \/ ARunStart \/ AConnectFail \/ AConnect \/ ANextFail \/ ANextEof
    \/ ANext \/ AChunk \/ ASleepDone \/ AFinal \/ ACancelled \/ ACloseBegin
    \/ ACloseEnd \/ AWait \/ AWake

\* ------------------------------------------------- the application's calls

\* The buffers of request_buffers() the application has not handed over yet.
\* They are alike, so it hands them over in the order of the list.
Fresh == {b \in appBufs : bufs[b].fid = 0}

\* enqueue_buffer(buf): self._incoming.append(buf), for a buffer it owns.
Enqueue ==
    /\ \E b \in appBufs :
        /\ b \in Fresh => \A o \in Fresh : b <= o
        /\ incoming' = Append(incoming, b)
        /\ appBufs' = appBufs \ {b}
    /\ UNCHANGED <<const, rtVars, stalled, pc, outgoing, bufs, statVars, reconnects, fpsVars,
                   stopVars, taskVars, localVars, app, ndeq, lastDeq, gotNone,
                   ncloses, stopRaised, openRaised, ghostVars, events>>


\* dequeue_buffer(): self._outgoing.get() blocks while the queue is empty.
Dequeue ==
    /\ outgoing # <<>>
    /\ outgoing' = Tail(outgoing)
    /\ IF Head(outgoing) = NoBuf
       THEN /\ gotNone' = gotNone + 1
            /\ UNCHANGED <<appBufs, ndeq, lastDeq>>
       ELSE /\ appBufs' = appBufs \cup {Head(outgoing)}
            /\ ndeq' = ndeq + 1
            /\ lastDeq' = bufs[Head(outgoing)].fid
            /\ gotNone' = gotNone
    /\ UNCHANGED <<const, rtVars, stalled, pc, incoming, bufs, statVars, reconnects, fpsVars,
                   stopVars, taskVars, localVars, app, ncloses, stopRaised,
                   openRaised, ghostVars, events>>

NextThread ==
    \/ TStart \/ TRunBegin \/ TWhile \/ TConnect \/ TPop \/ THeadersFail
    \/ THeaders \/ TBody \/ TPublish \/ TSleep \/ TStopLookup \/ TStopBody

Next == NextThread \/ NextAio \/ Enqueue \/ Dequeue

Spec == Init /\ [][Next]_vars

\* ------------------------------------------------------- a stalling server

\* The worker is in a read of the stream: the next frame's boundary and
\* headers, or a piece of a body.
Reading == pc \in {"t_headers", "t_body", "a_next", "a_chunk"}

\* The server stops sending while the connection stays up: from now on a
\* read of the stream returns nothing, neither data nor end of file nor an
\* error.
Stall ==
    /\ Reading /\ ~stalled /\ More
    /\ stalled' = TRUE
    /\ events' = events + 1
    /\ UNCHANGED <<const, rtVars, pc, poolVars, statVars, reconnects, fpsVars, stopVars,
                   taskVars, localVars, appVars, ghostVars>>

\* The session run() creates (aiohttp.ClientSession()) carries the library's
\* default timeout for a whole request; when it expires during a read_chunk
\* the read raises TimeoutError, which run() records like any exception.
\* aread_data itself sets no timeout.
AChunkTimeout ==
    /\ Resumes("a_chunk") /\ stalled
    /\ SetExc(TRUE)
    /\ ended' = "error"
    /\ stalled' = FALSE
    /\ DropLocals
    /\ AfterAttempt
    /\ UNCHANGED <<const, rtVars, poolVars, statVars, reconnects, fpsVars, stopVars,
                   run_task, cancelled, appVars, sent, iters, accepted, attempts,
                   streamed, nsentinels, events>>

\* The steps of the worker thread, from run() on.
ThreadSteps ==
    \/ TRunBegin \/ TWhile \/ TConnect \/ TPop \/ THeadersFail \/ THeaders
    \/ TBody \/ TPublish \/ TSleep

\* The steps of the background task.
TaskSteps ==
    \/ ARunStart \/ AConnectFail \/ AConnect \/ ANextFail \/ ANextEof \/ ANext
    \/ AChunk \/ AChunkTimeout \/ ASleepDone \/ AFinal \/ ACancelled

NextStall == Next \/ Stall \/ AChunkTimeout

\* The worker thread keeps running while it has a step to take, and so does
\* the background task: a read that can return does return, a timeout that
\* is set does expire.  The application and the server are not obliged to
\* do anything.
FairSpec ==
    /\ Init /\ [][NextStall]_vars
    /\ WF_vars(ThreadSteps)
    /\ WF_vars(TaskSteps)

\* ------------------------- mjpeg_generator against read_mjpeg_frame
\* Text and bytes are sequences of one-character strings; CR, LF and SP
\* stand for '\r', '\n' and ' '.  The characters are ASCII, on which
\* encode('utf-8') and decode('utf-8') change nothing.

CR == "CR"
LF == "LF"
SP == "SP"
NUL == "NUL"

\* The characters str.strip() removes, of those that occur.
Whitespace == {CR, LF, SP}

\* The sequences over S of at most n elements.
UpTo(S, n) == UNION {[1..k -> S] : k \in 0..n}

BoundaryChars == {"x", SP, LF}
BodyBytes == {"a", LF, "-"}
Boundaries == UpTo(BoundaryChars, MaxBoundary)
Bodies == UpTo(BodyBytes, MaxBody) \cup {[i \in 1..LongLen |-> "a"]}

\* request_buffers: a buffer as long as the longest frame.
BigLength == Max(LongLen, MaxBody)

Digit(d) == <<"0", "1", "2", "3", "4", "5", "6", "7", "8", "9">>[d + 1]
IsDigit(c) == \E d \in 0..9 : Digit(d) = c
DigitVal(c) == CHOOSE d \in 0..9 : Digit(d) = c

\* '%d' % n  for n >= 0.
RECURSIVE Decimal(_)
Decimal(n) ==
    IF n < 10 THEN <<Digit(n)>>
    ELSE Decimal(n \div 10) \o <<Digit(n % 10)>>

\* The value of a string of decimal digits.
RECURSIVE DigitsValue(_)
DigitsValue(ds) ==
    IF ds = <<>> THEN 0
    ELSE 10 * DigitsValue(SubSeq(ds, 1, Len(ds) - 1)) + DigitVal(ds[Len(ds)])

\* int(t): an optional sign and decimal digits, else ValueError.
ParseInt(t) ==
    LET signed == t # <<>> /\ t[1] \in {"-", "+"}
        ds == IF signed THEN Tail(t) ELSE t
    IN IF ds = <<>> \/ \E i \in 1..Len(ds) : ~IsDigit(ds[i])
       THEN [ok |-> FALSE, val |-> 0]
       ELSE [ok |-> TRUE,
             val |-> IF t[1] = "-" THEN 0 - DigitsValue(ds) ELSE DigitsValue(ds)]

ContentTypeLine ==
    <<"C", "o", "n", "t", "e", "n", "t", "-", "T", "y", "p", "e", ":", SP,
      "i", "m", "a", "g", "e", "/", "j", "p", "e", "g">>
ContentLengthLabel ==
    <<"C", "o", "n", "t", "e", "n", "t", "-", "L", "e", "n", "g", "t", "h",
      ":", SP>>
NameContentType ==
    <<"c", "o", "n", "t", "e", "n", "t", "-", "t", "y", "p", "e">>
NameContentLength ==
    <<"c", "o", "n", "t", "e", "n", "t", "-", "l", "e", "n", "g", "t", "h">>
ImageJpeg == <<"i", "m", "a", "g", "e", "/", "j", "p", "e", "g">>

\* hdr = '--%s\r\nContent-Type: image/jpeg\r\n' % boundary
Hdr(boundary) ==
    <<"-", "-">> \o boundary \o <<CR, LF>> \o ContentTypeLine \o <<CR, LF>>

\* for f in frames: what the generator yields, one after the other:
\* prefix + hdr + 'Content-Length: %d\r\n\r\n' % len(f), then f; the prefix
\* is '' for the first frame and '\r\n' from then on.
RECURSIVE Yields(_, _, _)
Yields(boundary, fs, prefix) ==
    IF fs = <<>> THEN <<>>
    ELSE prefix \o Hdr(boundary) \o ContentLengthLabel
         \o Decimal(Len(Head(fs))) \o <<CR, LF, CR, LF>> \o Head(fs)
         \o Yields(boundary, Tail(fs), <<CR, LF>>)

\* The concatenated output of mjpeg_generator(boundary, frames).
mjpeg_generator(boundary, fs) == Yields(boundary, fs, <<>>)

\* stream.readline() at offset p: the bytes up to and including the next
\* LF, or up to the end of the stream.
ReadLine(s, p) ==
    LET ends == {i \in (p + 1)..Len(s) : s[i] = LF}
        e == IF ends = {} THEN Len(s)
             ELSE CHOOSE i \in ends : \A j \in ends : i <= j
    IN [line |-> SubSeq(s, p + 1, e), pos |-> e]

\* str.strip()
Strip(t) ==
    LET keep == {i \in 1..Len(t) : t[i] \notin Whitespace}
    IN IF keep = {} THEN <<>>
       ELSE SubSeq(t, CHOOSE i \in keep : \A j \in keep : i <= j,
                      CHOOSE i \in keep : \A j \in keep : i >= j)

\* str.lower() on the letters the header names have.
LowerChar(c) ==
    CASE c = "C" -> "c" [] c = "T" -> "t" [] c = "L" -> "l" [] OTHER -> c
Lower(t) == [i \in 1..Len(t) |-> LowerChar(t[i])]

\* l.find(c): the first index of c in l (1-based), 0 when there is none.
Find(l, c) ==
    LET at == {i \in 1..Len(l) : l[i] = c}
    IN IF at = {} THEN 0 ELSE CHOOSE i \in at : \A j \in at : i <= j

read_header_line(s, p) ==
    [line |-> Strip(ReadLine(s, p).line), pos |-> ReadLine(s, p).pos]

\* read_headers, the loop over the header lines: an empty line ends it; a
\* line without ':' is a ProtoError.
RECURSIVE HeaderLoop(_, _, _)
HeaderLoop(s, p, headers) ==
    LET l == read_header_line(s, p)
        i == Find(l.line, ":")
    IN IF l.line = <<>> THEN [err |-> FALSE, headers |-> headers, pos |-> l.pos]
       ELSE IF i = 0 THEN [err |-> TRUE, headers |-> headers, pos |-> l.pos]
       ELSE HeaderLoop(s, l.pos,
                Append(headers,
                    [name |-> Lower(SubSeq(l.line, 1, i - 1)),
                     body |-> Strip(SubSeq(l.line, i + 1, Len(l.line)))]))

\* A read_headers that takes the first line for the boundary line.
read_headers_first_line(s, p, boundary) ==
    LET l == read_header_line(s, p)
    IN IF l.line # boundary
       THEN [err |-> TRUE, headers |-> <<>>, pos |-> l.pos]
       ELSE HeaderLoop(s, l.pos, <<>>)

\* read_headers: one empty line before the boundary line is passed over.
read_headers(s, p, boundary) ==
    LET l1 == read_header_line(s, p)
        l == IF l1.line = <<>> THEN read_header_line(s, l1.pos) ELSE l1
    IN IF l.line # boundary
       THEN [err |-> TRUE, headers |-> <<>>, pos |-> l.pos]
       ELSE HeaderLoop(s, l.pos, <<>>)

\* headers.get(name): the bodies of the headers of that name, in order.
HeaderValues(headers, name) ==
    LET hs == SelectSeq(headers, LAMBDA h : h.name = name)
    IN [i \in 1..Len(hs) |-> hs[i].body]

\* parse_content_length: int(clen[0]); ValueError and TypeError (no such
\* header) become ProtoError.
parse_content_length(headers) ==
    LET v == HeaderValues(headers, NameContentLength)
    IN IF v = <<>> THEN [ok |-> FALSE, val |-> 0] ELSE ParseInt(v[1])

\* check_content_type(headers, 'image/jpeg'): the first value, up to ';'.
check_content_type(headers) ==
    LET v == HeaderValues(headers, NameContentType)
        i == IF v = <<>> THEN 0 ELSE Find(v[1], ";")
    IN /\ v # <<>>
       /\ (IF i = 0 THEN v[1] ELSE SubSeq(v[1], 1, i - 1)) = ImageJpeg

\* What a call of read_mjpeg_frame leaves: how it returned ("frame", or the
\* exception "eof" / "proto"), clen, the buffer and the stream's offset.
Returned(res, c, b, p) ==
    [res |-> res, clen |-> c, buf |-> b, pos |-> p,
     data |-> IF res = "frame" THEN SubSeq(b, 1, Min(c, Len(b))) ELSE <<>>]

\* read_data / skip_data on a stream that delivers what it has: the next
\* `want` bytes, or ProtoError when the stream ends before them.
ReadBody(s, p, b, len, c) ==
    LET want == IF len >= c THEN ViewLen(len, c) ELSE c
    IN IF Len(s) - p < want THEN Returned("proto", c, b, Len(s))
       ELSE Returned("frame", c,
                     IF len >= c
                     THEN WriteAt(b, 0, SubSeq(s, p + 1, p + want)) ELSE b,
                     p + want)

\* read_mjpeg_frame(stream, boundary, buf, length) with skip_big = True.
read_mjpeg_frame(s, p, boundary, b, len) ==
    LET hdr == read_headers(s, p, boundary)
        c == parse_content_length(hdr.headers)
    IN IF hdr.err \/ ~c.ok THEN Returned("proto", 0, b, hdr.pos)
       ELSE IF c.val = 0 THEN Returned("eof", 0, b, hdr.pos)
       ELSE IF ~check_content_type(hdr.headers)
            THEN Returned("proto", c.val, b, hdr.pos)
       ELSE ReadBody(s, hdr.pos, b, len, c.val)

clientVars ==
    <<const, stalled, pc, poolVars, statVars, reconnects, fpsVars, stopVars,
      taskVars, localVars, appVars, ghostVars, events>>

\* A client as constructed, and never started.
ClientIdle ==
    /\ kind = "thread"
    /\ pc = "t_idle"
    /\ incoming = <<>> /\ outgoing = <<>>
    /\ bufs = [b \in BufIds |-> NewBuffer(BufLength(b))]
    /\ overruns = 0 /\ in_overrun = FALSE
    /\ frames = 0 /\ discarded_frames = 0 /\ reconnects = 0
    /\ fps = 0 /\ fframe = 0 /\ fcur = 0 /\ fprev = 0
    /\ stop = FALSE /\ stop_is_method = TRUE
    /\ is_open = FALSE /\ run_task = FALSE /\ exc = FALSE /\ cancelled = FALSE
    /\ waiter = "none"
    /\ reconnect_limit = NoLimit
    /\ buf = NoBuf /\ length = 0 /\ clen = 0 /\ pos = 0 /\ seq = 0
    /\ app = "idle" /\ appBufs = BufIds
    /\ sent = <<>> /\ iters = <<>> /\ accepted = {}
    /\ ndeq = 0 /\ lastDeq = 0 /\ nsentinels = 0 /\ gotNone = 0
    /\ attempts = 0 /\ streamed = FALSE /\ ncloses = 0
    /\ stopRaised = "no" /\ openRaised = FALSE /\ limitBreak = FALSE
    /\ ended = "none" /\ stalled = FALSE /\ events = 0

\* The inputs: a boundary string and a sequence of frames, and a buffer as
\* long as the longest of them.
RtInit ==
    /\ ClientIdle
    /\ rtPc = "input"
    /\ rtB \in Boundaries
    /\ rtFrames \in UpTo(Bodies, MaxFrames)
    /\ rtStream = <<>> /\ rtPos = 0 /\ rtOut = <<>>
    /\ rtBuf = [i \in 1..BigLength |-> NUL]

\* The server side: the frames are served and their bytes concatenated.
Generate ==
    /\ rtPc = "input"
    /\ rtStream' = mjpeg_generator(rtB, rtFrames)
    /\ rtPc' = "stream"
    /\ UNCHANGED <<clientVars, rtB, rtFrames, rtPos, rtBuf, rtOut>>

\* The client side: one more call of read_mjpeg_frame with boundary
\* '--' + b, for as long as the calls return frames and frames are left.
ReadFrame ==
    /\ rtPc = "stream"
    /\ Len(rtOut) < Len(rtFrames)
    /\ rtOut # <<>> => rtOut[Len(rtOut)].res = "frame"
    /\ LET r == read_mjpeg_frame(rtStream, rtPos, <<"-", "-">> \o rtB, rtBuf,
                                 Len(rtBuf))
       IN /\ rtOut' = Append(rtOut, [res |-> r.res, clen |-> r.clen,
                                     data |-> r.data])
          /\ rtBuf' = r.buf
          /\ rtPos' = r.pos
    /\ UNCHANGED <<clientVars, rtPc, rtB, rtFrames, rtStream>>

RtNext == Generate \/ ReadFrame

RoundTrip == RtInit /\ [][RtNext]_vars

\* ================================================================ claims

\* The buffers now in the outgoing queue, in order, without the sentinels.
OutBufs == SelectSeq(outgoing, LAMBDA b : b # NoBuf)
OutFrames == [i \in 1..Len(OutBufs) |-> bufs[OutBufs[i]].fid]
InOut(b) == \E i \in 1..Len(outgoing) : outgoing[i] = b

\* Buffers published so far: those dequeued and those still queued.
Published == ndeq + Len(OutBufs)

\* The elements of a finite set of numbers in increasing order.
RECURSIVE Ascending(_)
Ascending(S) ==
    IF S = {} THEN <<>>
    ELSE LET m == CHOOSE x \in S : \A y \in S : x <= y
         IN <<m>> \o Ascending(S \ {m})

\* The frame the threaded loop has counted and not yet published.
InFlight ==
    IF pc = "t_publish" /\ Len(sent) \in accepted THEN <<Len(sent)>> ELSE <<>>

\* C1: the buffers dequeue_buffer returns are exactly the frames that found a
\* free buffer of sufficient length, in the order the frames arrived: what is
\* queued (and, in the threaded loop, about to be queued) is always the
\* accepted frames after the last one dequeued, in increasing order.
C1_FifoDelivery ==
    OutFrames \o InFlight = Ascending({f \in accepted : f > lastDeq})

\* Two frames were accepted and both were dequeued, the first one first.
C1_Witness == accepted = {1, 2} /\ ndeq = 2 /\ lastDeq = 2

\* C2 as stated: discarded_frames + published = frames in every state.
C2_Original == discarded_frames + Published = frames

\* C2 amended: the equality holds in every state except while the threaded
\* loop is between  self.frames += 1  and the put / discard of that frame,
\* where frames is ahead by exactly one.
C2_Accounting ==
    frames = discarded_frames + Published + (IF pc = "t_publish" THEN 1 ELSE 0)

\* Two frames were received, one was discarded and one published.
C2_Witness ==
    frames = 2 /\ discarded_frames = 1 /\ Published = 1 /\ pc # "t_publish"

\* The number of maximal runs of TRUE in a sequence of booleans.
RECURSIVE Runs(_)
Runs(q) ==
    IF q = <<>> THEN 0
    ELSE Runs(SubSeq(q, 1, Len(q) - 1))
         + (IF q[Len(q)] /\ (Len(q) = 1 \/ ~q[Len(q) - 1]) THEN 1 ELSE 0)

\* Per iteration of the read loop: the pool was empty.
IterNoBuf == [i \in 1..Len(iters) |-> iters[i].nobuf]
\* Per frame received: the pool was empty when its iteration began.
FramedIters == SelectSeq(iters, LAMBDA r : r.framed)
FrameNoBuf == [i \in 1..Len(FramedIters) |-> FramedIters[i].nobuf]

C4_SkipNeverRaises ==
    [][(/\ Len(sent') = Len(sent) + 1
        /\ sent'[Len(sent')] > 0
        /\ (buf = NoBuf \/ length < sent'[Len(sent')]))
       => pc' \in {"t_body", "a_chunk"}]_vars

\* The body of frame f when it is n bytes long.
Body(f, n) == [k \in 1..n |-> BodyByte(f, k - 1)]

\* C5: a buffer published for a frame of Content-Length N > 0 has used = N
\* and its first N bytes are the frame's body in order, and the threaded
\* loop has consumed exactly N bytes of the stream when it publishes.
C5_ExactBody ==
    /\ \A b \in BufIds :
        (/\ InOut(b) \/ b \in appBufs
         /\ bufs[b].fid # 0
         /\ sent[bufs[b].fid] > 0)
        => /\ bufs[b].used = sent[bufs[b].fid]
           /\ Len(bufs[b].data) >= bufs[b].used
           /\ SubSeq(bufs[b].data, 1, bufs[b].used)
                = Body(bufs[b].fid, sent[bufs[b].fid])
    /\ (pc = "t_publish" /\ clen > 0 /\ length >= clen) => pos = clen

\* The second frame of the run, 2 bytes long, sits in the queue in a buffer
\* of 2 bytes.
C5_Witness ==
    \E b \in BufIds :
        /\ InOut(b) /\ bufs[b].fid = 2 /\ sent[2] = 2
        /\ bufs[b].used = 2
        /\ SubSeq(bufs[b].data, 1, 2) = Body(2, 2)

C7_LimitSentinel ==
    (IsAio /\ pc = "a_done" /\ limitBreak /\ ncloses = 0) => nsentinels >= 1

\* C8: every close() puts exactly one None at the tail of the outgoing
\* queue, and only when the background task has finished (or never existed).
C8_CloseSentinel ==
    [][/\ nsentinels' # nsentinels
            => /\ nsentinels' = nsentinels + 1
               /\ outgoing' = Append(outgoing, NoBuf)
               /\ pc' \in {"a_none", "a_done"}
       /\ ncloses' = nsentinels' + (IF app' = "close_wait" THEN 1 ELSE 0)]_vars

\* close() stopped a streaming task: the sentinel follows the buffer the
\* task had published.
C8_Witness ==
    /\ IsAio /\ pc = "a_done" /\ ncloses = 1 /\ app = "idle"
    /\ Len(outgoing) = 2 /\ outgoing[1] # NoBuf /\ outgoing[2] = NoBuf

\* C9: once the stop flag is set (and stays set) no loop iteration begins,
\* no connection is opened and no reconnect delay starts, in either client.
C9_StopObserved ==
    [][(stop /\ stop' /\ ~stop_is_method)
       => /\ Len(iters') = Len(iters)
          /\ attempts' = attempts
          /\ ~(pc' \in {"t_sleep", "a_sleep"} /\ pc' # pc)]_vars

\* C10: stop() called while run() is executing does not raise.
C10_StopSucceeds == stopRaised # "running"

\* The reconnect delay of either client.
Sleeping == pc \in {"t_sleep", "a_sleep"}

\* C11: a frame of Content-Length 0 (or no further part) ends the connection
\* without recording an error and without touching frames, discarded_frames
\* or reconnects; after it, unless the task is stopped or the limit is
\* reached, the worker goes through the reconnect delay, reconnects grows by
\* exactly one when the delay ends, and only then the next attempt starts.
C11_CleanEof ==
    [][/\ (ended' = "eof" /\ ended # "eof")
            => /\ frames' = frames /\ discarded_frames' = discarded_frames
               /\ reconnects' = reconnects
               /\ ~exc'
               /\ pc' = IF IsThread THEN "t_sleep"
                        ELSE IF reconnect_limit # NoLimit
                                /\ reconnects >= reconnect_limit
                             THEN "a_final" ELSE "a_sleep"
       /\ ended = "eof"
            => /\ reconnects' # reconnects
                    => Sleeping /\ reconnects' = reconnects + 1
               /\ (Sleeping /\ pc' # pc /\ ~cancelled)
                    => /\ reconnects' = reconnects + 1
                       /\ pc' \in {"t_while", "a_get"}
               /\ (ended' = "none" /\ ~stop) => pc \in {"t_while", "a_sleep"}
               /\ (IsThread /\ pc = "t_while") => reconnects >= attempts]_vars

\* A connection delivered a frame and then ended cleanly; the delay is over
\* and reconnects is 1.
C11_Witness ==
    /\ ended = "eof" /\ frames = 1 /\ pc = "t_while" /\ reconnects = 1
    /\ attempts = 1

\* reconnect_limit is configured and reached.
LimitReached == reconnect_limit # NoLimit /\ reconnects >= reconnect_limit

\* C12: a connection that fails is caught in run(): the asyncio client
\* records the error in exc and notifies the waiters of exc_notify; the
\* worker goes on to the reconnect delay (or, with the limit reached, to its
\* end), reconnects grows by one when the delay ends and the next attempt
\* follows; and run() ends only after a stop or with the limit reached.
C12_FailureRecorded ==
    [][/\ (ended' = "error" /\ ended # "error")
            => /\ IsAio => exc' /\ (waiter = "waiting" => waiter' = "notified")
               /\ reconnects' = reconnects
               /\ pc' = IF IsThread THEN "t_sleep"
                        ELSE IF LimitReached THEN "a_final" ELSE "a_sleep"
       /\ ended = "error"
            => /\ (IsAio /\ pc = "a_sleep") => exc
               /\ reconnects' # reconnects
                    => Sleeping /\ reconnects' = reconnects + 1
               /\ (Sleeping /\ pc' # pc /\ ~cancelled)
                    => /\ reconnects' = reconnects + 1
                       /\ pc' \in {"t_while", "a_get"}
               /\ (ended' = "none" /\ ~stop) => pc \in {"t_while", "a_sleep"}
       /\ (pc' \in {"t_done", "a_final", "a_done"} /\ pc' # pc)
            => stop' \/ LimitReached]_vars

\* A waiter was notified of a failed connection and the second attempt is
\* under way.
C12_Witness ==
    /\ IsAio /\ pc = "a_get" /\ attempts = 2 /\ reconnects = 1
    /\ waiter = "notified" /\ ~exc /\ ended = "none"

\* A connection attempt of the asyncio client is in progress.
InAttempt == IsAio /\ pc \in {"a_get", "a_next", "a_chunk"}

\* C13: exc is None for as long as a connection attempt is in progress, a
\* recorded error is that of the connection that ended last, and every
\* change of exc notifies the task waiting on exc_notify.
C13_ExcCleared ==
    [][/\ InAttempt => ~exc
       /\ InAttempt' => ~exc'
       /\ exc' => ended' = "error"
       /\ exc' # exc => (waiter = "waiting" => waiter' = "notified")]_vars

\* After a failed connection, of which a waiter was notified, the next
\* connection is streaming and exc is None again.
C13_Witness ==
    /\ IsAio /\ pc = "a_next" /\ attempts = 2 /\ streamed
    /\ waiter = "notified" /\ ~exc

\* The background task exists and has not finished.
TaskAlive == IsAio /\ pc \notin {"a_none", "a_done"}

\* C14: open() on a client that is already open (is_open, or _run_task is
\* set) raises and changes nothing else, and a task is created only when
\* none is alive and none is registered.
C14_AlreadyOpen ==
    [][/\ (openRaised' /\ ~openRaised)
            => /\ is_open \/ run_task
               /\ UNCHANGED <<const, rtVars, stalled, pc, poolVars, statVars, reconnects,
                              fpsVars, stopVars, taskVars, localVars, app,
                              appBufs, ndeq, lastDeq, gotNone, ncloses,
                              stopRaised, ghostVars, events>>
       /\ (run_task' /\ ~run_task)
            => ~TaskAlive /\ ~is_open /\ pc' = "a_created" /\ ~openRaised'
       /\ (pc' = "a_created" /\ pc # "a_created") => ~run_task /\ ~is_open]_vars

\* open() raised while the task of the first open() was streaming.
C14_Witness ==
    openRaised /\ run_task /\ is_open /\ pc = "a_next" /\ frames = 1

\* C15 as stated: when a frame arrives with the clock at or past the window
\* start + log_interval, fps becomes the truncated count / log_interval, the
\* count restarts at 0 and the window start advances by exactly log_interval.
C15_Original ==
    [][(frames' = frames + 1 /\ fcur' >= fprev + log_interval)
       => /\ fps' = (fframe + 1) \div log_interval
          /\ fframe' = 0
          /\ fprev' = fprev + log_interval]_vars

\* C15 amended: as stated, except that the window start moves to the current
\* reading of the clock; so the latest reading always lies inside the
\* window.  The frame that closes a window is counted in it, and a frame
\* that does not close it only adds one to the count.
C15_FpsWindow ==
    [][/\ fprev <= fcur /\ fcur < fprev + log_interval /\ fframe >= 0
       /\ frames' = frames + 1
            => /\ fcur' >= fcur
               /\ IF fcur' >= fprev + log_interval
                  THEN /\ fps' = (fframe + 1) \div log_interval
                       /\ fframe' = 0
                       /\ fprev' = fcur'
                  ELSE /\ fps' = fps
                       /\ fframe' = fframe + 1
                       /\ fprev' = fprev
       /\ (frames' = frames /\ pc \notin {"t_start", "a_created"})
            => UNCHANGED fpsVars]_vars

\* Two frames were counted in a window that the second of them closed.
C15_Witness ==
    frames = 2 /\ fps = 2 /\ fframe = 0 /\ fprev = fcur /\ fcur >= 1

\* A buffer dequeue_buffer has returned and the application still holds.
Delivered(b) == b \in appBufs /\ bufs[b].fid # 0

\* C16: every buffer dequeue_buffer returned carries in its attribute
\* `sequence` the index of its frame on its connection, which is the value
\* of the loop's counter seq (0 on each new connection, one more per frame)
\* when the buffer was published.  Checked for frames of positive length.
C16_Sequence ==
    \A b \in BufIds :
        (Delivered(b) /\ sent[bufs[b].fid] > 0)
        => bufs[b].sequence = bufs[b].seq

\* C17: read_mjpeg_frame accepts only a positive Content-Length (0 ends the
\* stream, a negative, missing or non-numeric one is a framing error): the
\* threaded loop never reads a body, nor publishes or discards a frame, for a
\* Content-Length below 1.
C17_ContentLength ==
    (IsThread /\ pc \in {"t_body", "t_publish"}) => clen > 0

\* C18: while every frame sent has a positive Content-Length, every Buffer
\* keeps 0 <= used <= length and a byte container of exactly length bytes.
C18_BufferShape ==
    (\A i \in 1..Len(sent) : sent[i] > 0)
    => \A b \in BufIds :
        /\ 0 <= bufs[b].used /\ bufs[b].used <= BufLength(b)
        /\ Len(bufs[b].data) = BufLength(b)

\* Where a buffer can be: the incoming pool, the read loop's hands, the
\* outgoing queue.
InPool == {incoming[i] : i \in 1..Len(incoming)}
Held == IF buf # NoBuf THEN {buf} ELSE {}
Queued == {OutBufs[i] : i \in 1..Len(OutBufs)}

\* C19: no buffer is at once with the read loop (in the pool or being
\* written) and with the consumer (queued, or owned by the application), and
\* no buffer is in the pool or in the outgoing queue twice.
C19_Ownership ==
    /\ (InPool \cup Held) \cap (Queued \cup appBufs) = {}
    /\ InPool \cap Held = {}
    /\ Queued \cap appBufs = {}
    /\ Cardinality(InPool) = Len(incoming)
    /\ Cardinality(Queued) = Len(OutBufs)

\* One buffer is queued for the consumer while the loop writes the other.
C19_Witness ==
    /\ Len(OutBufs) = 1 /\ buf # NoBuf /\ pc \in {"t_body", "a_chunk"}
    /\ pos > 0 /\ appBufs = {}

\* C20: every buffer is in the incoming pool, with the read loop, in the
\* outgoing queue or with the application: none drops out of circulation.
C20_Conservation ==
    InPool \cup Held \cup Queued \cup appBufs = BufIds

\* C21: a stall of the server during any read of the stream, in either
\* client, is eventually turned into an error of the connection, after
\* which the client is out of the read and on its way to the reconnect
\* delay (unless it was stopped meanwhile).
C21_StallBounded ==
    (stalled /\ Reading) ~> ((ended = "error" /\ ~Reading) \/ stop)

\* C22: once run() has ended by itself on reconnect_limit (is_open is False
\* and close() was not called), open() does not raise the already-open
\* error: it starts a new background task.
C22_ReopenAfterLimit ==
    [][(IsAio /\ pc = "a_done" /\ limitBreak /\ ~is_open /\ ncloses = 0)
       => /\ ~(openRaised' /\ ~openRaised)
          /\ (openRaised' # openRaised \/ pc' # pc)
                => pc' = "a_created" /\ run_task' /\ ~openRaised']_vars

\* C23: dequeue_buffer returns the None sentinel only for a stop of the
\* session being consumed: while the session started by the latest open()
\* is open and neither closed nor stopped, no None is dequeued.
C23_NoStaleSentinel ==
    [][(gotNone' # gotNone) => ~(IsAio /\ run_task /\ is_open /\ ~stop)]_vars

\* The frames before the first zero-length one.
RECURSIVE Servable(_)
Servable(fs) ==
    IF fs = <<>> \/ Head(fs) = <<>> THEN <<>>
    ELSE <<Head(fs)>> \o Servable(Tail(fs))

\* What the calls made so far returned, against the frames served: the i-th
\* call returns the i-th frame with clen = len(frame) and leaves the stream
\* just after that frame's last byte; the call that meets a zero-length
\* frame raises EOFError.
RoundTripExact ==
    \A i \in 1..Len(rtOut) :
        IF i <= Len(Servable(rtFrames))
        THEN /\ rtOut[i] = [res |-> "frame", clen |-> Len(rtFrames[i]),
                            data |-> rtFrames[i]]
             /\ i = Len(rtOut)
                  => rtPos = Len(mjpeg_generator(rtB, SubSeq(rtFrames, 1, i)))
        ELSE rtOut[i].res = "eof"

\* C24 as stated: for every boundary string b and all frames, the calls of
\* read_mjpeg_frame on the output of mjpeg_generator(b, frames) with
\* boundary '--' + b return the frames in order, consuming the stream
\* exactly, and a zero-length frame is reported as EOFError.
C24_Original == RoundTripExact

\* The boundary string has no line feed in it and does not end in
\* whitespace.
CleanBoundary(b) ==
    /\ \A i \in 1..Len(b) : b[i] # LF
    /\ b # <<>> => b[Len(b)] \notin Whitespace

\* C24 amended: the same, for every boundary string that contains no line
\* feed and does not end in whitespace.
C24_RoundTrip == CleanBoundary(rtB) => RoundTripExact

\* The long frame and a one-byte frame holding a line feed came back in
\* order, the blank line between them passed over and the stream consumed
\* to its end.
C24_Witness ==
    /\ rtB = <<"x">> /\ Len(rtOut) = 2
    /\ rtOut[1].res = "frame" /\ rtOut[1].clen = LongLen
    /\ rtOut[2].res = "frame" /\ rtOut[2].data = <<LF>>
    /\ rtPos = Len(rtStream) /\ rtPos > 0

====
